---- MODULE Spec2Model ----
(***************************************************************************)
(* A model of the ext2 JPEG carver: Ext2FS::new (src/src/ext2.rs), the     *)
(* free-block iterator BlockIter (src/src/ext2.rs) and the carving loop of *)
(* recover_files (src/src/main.rs).                                        *)
(*                                                                         *)
(* The specifications share the variables:                                 *)
(*   SpecIter  - BlockIter::next called repeatedly on a loaded Ext2FS;     *)
(*   SpecIterFair - the same calls, made by a caller that never gives up;  *)
(*   Spec      - the loop of recover_files driving the iterator;           *)
(*   SpecLoad  - Ext2FS::new on a device image.                            *)
(***************************************************************************)
EXTENDS Integers, Sequences, FiniteSets, TLC

VARIABLES
    pc,                 \* position of the running function
    overflow_checks,    \* the build: TRUE when integer overflow panics (debug), FALSE when it wraps (release)
    device,             \* the image: what seek + read_exact return
    ext2_fs,            \* the Ext2FS aggregate (ext2.rs:9-17)
    current_group,      \* BlockIter.current_group
    current_byte,       \* BlockIter.current_byte
    current_bit,        \* BlockIter.current_bit
    block_number,       \* BlockIter.block_number
    item,               \* what the last call of next() returned
    yielded,            \* history: every Some(..) returned so far, with its bit position
    nones,              \* history: how many calls of next() returned None so far
    current_jpeg,       \* recover_files: Option<Vec<u8>>
    jpeg_start_block,   \* recover_files: Option<usize>
    block_data,         \* recover_files: the block read in the last iteration (None if none was read)
    stream,             \* history: the free blocks read so far, in order
    files               \* history: every File::create + write_all so far, in order

vars == <<pc, overflow_checks, device, ext2_fs, current_group, current_byte, current_bit,
          block_number, item, yielded, nones, current_jpeg, jpeg_start_block,
          block_data, stream, files>>

iter_vars == <<current_group, current_byte, current_bit, block_number, item, yielded,
               nones>>
carve_vars == <<current_jpeg, jpeg_start_block, block_data, stream, files>>

----------------------------------------------------------------------------
(* Bounds of the model *)

\* SpecIter: at most this many block groups
IterMaxGroups == 2
\* SpecIter: at most this many bytes in a group's bitmap (blocks_per_group / 8)
IterMaxBytes == 2
\* SpecIter: next() is called until it has returned None this many times
MaxNones == 2
\* Spec: at most this many block groups
MaxGroups == 2
\* Spec: at most this many bytes in a group's bitmap
MaxBytes == 1
\* Spec: at most this many free data blocks on the image
MaxFree == 4
\* SpecLoad: at most this many descriptor slots written on the image
MaxSlots == 3

----------------------------------------------------------------------------
(* Option<T> *)

None == [some |-> FALSE]
Some(x) == [some |-> TRUE, v |-> x]

Min(S) == CHOOSE x \in S : \A y \in S : x <= y

RECURSIVE Pow2(_)
Pow2(n) == IF n = 0 THEN 1 ELSE 2 * Pow2(n - 1)

RECURSIVE SumLen(_, _)
\* total length of the first k sequences of ss
SumLen(ss, k) == IF k = 0 THEN 0 ELSE Len(ss[k]) + SumLen(ss, k - 1)

----------------------------------------------------------------------------
(* BlockIter (ext2.rs:569-642) *)

\* BlockIter::new: all cursors and the block counter start at 0
BlockIterNew == [current_group |-> 0, current_byte |-> 0, current_bit |-> 0,
                 block_number |-> 0]

BitMsbFirst(group_byte, bit) == (group_byte \div Pow2(7 - bit)) % 2
\* (group_byte >> self.current_bit) & 1
Bit(group_byte, bit) == (group_byte \div Pow2(bit)) % 2

IsMetadataOffByOne(current_block_number, blocks_to_skip) ==
    current_block_number < blocks_to_skip
\* current_block_number <= blocks_to_skip as usize
IsMetadata(current_block_number, blocks_to_skip) ==
    current_block_number <= blocks_to_skip

NextGroupResetsCounter(c) ==
    [c EXCEPT !.current_byte = 0, !.current_group = @ + 1, !.block_number = 0]
\* "Next group": self.current_byte = 0; self.current_group += 1
NextGroup(c) == [c EXCEPT !.current_byte = 0, !.current_group = @ + 1]

\* "Next byte": self.current_bit = 0; self.current_byte += 1
NextByte(c) == [c EXCEPT !.current_bit = 0, !.current_byte = @ + 1]

\* self.block_number += 1; self.current_bit += 1
NextBit(c) == [c EXCEPT !.block_number = @ + 1, !.current_bit = @ + 1]

ExhaustedRewinds(c) == [item |-> None, cur |-> BlockIterNew]
\* the outer while loop is over: None, and no field of the iterator is touched
Exhausted(c) == [item |-> None, cur |-> c]

RECURSIVE BlockIterNext(_, _)
\* BlockIter::next: the three nested while loops, entered with the cursor c.
\* The result is the returned Option and the cursor the call leaves behind.
BlockIterNext(fs, c) ==
    IF c.current_group < Len(fs.block_bitmaps)
    THEN LET group_bitmap == fs.block_bitmaps[c.current_group + 1]
             blocks_to_skip == fs.data_blocks_offsets[c.current_group + 1]
         IN  IF c.current_byte < Len(group_bitmap)
             THEN LET group_byte == group_bitmap[c.current_byte + 1]
                  IN  IF c.current_bit < 8
                      THEN LET current_block_number == c.block_number + 1
                           IN  IF IsMetadata(current_block_number, blocks_to_skip)
                               THEN BlockIterNext(fs, NextBit(c))
                               ELSE [item |-> Some(<<c.current_group + 1,
                                                     current_block_number,
                                                     Bit(group_byte, c.current_bit) = 1>>),
                                     cur |-> NextBit(c)]
                      ELSE BlockIterNext(fs, NextByte(c))
             ELSE BlockIterNext(fs, NextGroup(c))
    ELSE Exhausted(c)

\* the iterator's fields as one record
Cursor == [current_group |-> current_group, current_byte |-> current_byte,
           current_bit |-> current_bit, block_number |-> block_number]

\* one call of next() on the iterator: its result
Call == BlockIterNext(ext2_fs, Cursor)

\* the iterator's fields after the call, and the histories
IterAdvance ==
    /\ current_group' = Call.cur.current_group
    /\ current_byte' = Call.cur.current_byte
    /\ current_bit' = Call.cur.current_bit
    /\ block_number' = Call.cur.block_number
    /\ item' = Call.item
    /\ yielded' = IF Call.item.some
                  THEN Append(yielded,
                              [group |-> Call.item.v[1], block |-> Call.item.v[2],
                               used |-> Call.item.v[3],
                               g |-> Call.cur.current_group,
                               b |-> Call.cur.current_byte,
                               i |-> Call.cur.current_bit - 1])
                  ELSE yielded
    /\ nones' = IF Call.item.some THEN nones ELSE nones + 1

----------------------------------------------------------------------------
(* The loaded file systems the iterator runs on.  Ext2FS::new gives every  *)
(* group a bitmap of blocks_per_group / 8 bytes and one offset per group.  *)

\* bitmap contents: byte k (0-based) of a bitmap of each kind
BitmapKinds == {"low", "mixed", "high", "full"}
BitmapByte(kind, k) ==
    CASE kind = "low" -> 5                            \* 0b00000101
      [] kind = "mixed" -> IF k % 2 = 0 THEN 160 ELSE 250   \* 0b10100000, 0b11111010
      [] kind = "high" -> 63                           \* 0b00111111
      [] kind = "full" -> 255

OffsetPool == {0, 3, 12}

\* the part of Ext2FS the iterator and the carver read (ext2.rs:501-509)
LoadedFS(kinds, offsets, nbytes) ==
    [block_bitmaps |-> [g \in 1..Len(kinds) |->
                            [k \in 1..nbytes |-> BitmapByte(kinds[g], k - 1)]],
     data_blocks_offsets |-> offsets]

FileSystems(kindPool, offsetPool, maxGroups, maxBytes) ==
    UNION {{LoadedFS(kinds, offsets, nbytes) :
                kinds \in [1..n -> kindPool],
                offsets \in [1..n -> offsetPool],
                nbytes \in 0..maxBytes} : n \in 0..maxGroups}

\* every bit position of the bitmaps of fs: <<group, byte, bit>>, 0-based
PositionsOf(fs) ==
    UNION {{<<g, b, i>> : b \in 0..(Len(fs.block_bitmaps[g + 1]) - 1), i \in 0..7} :
              g \in 0..(Len(fs.block_bitmaps) - 1)}

\* the global 1-based number of the bit at position p: one per bit of every
\* earlier group, one per earlier bit of its own group
BlockOf(fs, p) == 1 + 8 * SumLen(fs.block_bitmaps, p[1]) + 8 * p[2] + p[3]

\* the positions of fs that stand for free data blocks
FreePositions(fs) ==
    {p \in PositionsOf(fs) :
        /\ BlockOf(fs, p) > fs.data_blocks_offsets[p[1] + 1]
        /\ (fs.block_bitmaps[p[1] + 1][p[2] + 1] \div Pow2(p[3])) % 2 = 0}

\* the carving loop before its first iteration (main.rs:18-20)
Idle ==
    /\ current_jpeg = None
    /\ jpeg_start_block = None
    /\ block_data = None
    /\ stream = <<>>
    /\ files = <<>>

\* a fresh iterator (BlockIter::new)
IterFresh ==
    /\ current_group = BlockIterNew.current_group
    /\ current_byte = BlockIterNew.current_byte
    /\ current_bit = BlockIterNew.current_bit
    /\ block_number = BlockIterNew.block_number
    /\ item = None
    /\ yielded = <<>>
    /\ nones = 0

----------------------------------------------------------------------------
(* SpecIter: BlockIter::next called again and again on a loaded Ext2FS *)

InitIter ==
    /\ pc = "iter"
    /\ overflow_checks = TRUE
    /\ device = None
    /\ ext2_fs \in FileSystems(BitmapKinds, OffsetPool, IterMaxGroups, IterMaxBytes)
    /\ IterFresh
    /\ Idle

\* next() returns Some((group, block, is_used))
IterYield ==
    /\ pc = "iter"
    /\ Call.item.some
    /\ IterAdvance
    /\ UNCHANGED <<pc, overflow_checks, device, ext2_fs, carve_vars>>

\* next() returns None
IterNone ==
    /\ pc = "iter"
    /\ ~Call.item.some
    /\ IterAdvance
    /\ pc' = "exhausted"
    /\ UNCHANGED <<overflow_checks, device, ext2_fs, carve_vars>>

\* next() is called on the exhausted iterator
IterAgain ==
    /\ pc = "exhausted"
    /\ nones < MaxNones
    /\ IterAdvance
    /\ UNCHANGED <<pc, overflow_checks, device, ext2_fs, carve_vars>>

NextIter == IterYield \/ IterNone \/ IterAgain

SpecIter == InitIter /\ [][NextIter]_vars

\* the runs in which the caller keeps calling next(): every started call
\* returns, and the caller calls again
InitIterFair ==
    /\ pc = "iter"
    /\ overflow_checks = TRUE
    /\ device = None
    /\ ext2_fs \in FileSystems(BitmapKinds, {0, 12}, IterMaxGroups, IterMaxBytes)
    /\ IterFresh
    /\ Idle

SpecIterFair == InitIterFair /\ [][NextIter]_vars /\ WF_vars(NextIter)

----------------------------------------------------------------------------
(* recover_files (main.rs:7-74): the carving loop *)

\* [0xFF, 0xD8] and [0xFF, 0xD9]
SOI == <<255, 216>>
EOI == <<255, 217>>

\* data.windows(2).position(|w| w == marker): the 0-based index of the first
\* two-byte window equal to the marker
Position(data, w) ==
    LET hits == {k \in 0..(Len(data) - 2) : <<data[k + 1], data[k + 2]>> = w}
    IN  IF hits = {} THEN None ELSE Some(Min(hits))

SliceFromAfter(data, pos) == SubSeq(data, pos + 2, Len(data))
\* block_data[pos..]
SliceFrom(data, pos) == SubSeq(data, pos + 1, Len(data))

SliceThroughShort(data, pos) == SubSeq(data, 1, pos + 1)
\* block_data[..=pos + 1]
SliceThrough(data, pos) == SubSeq(data, 1, pos + 2)

StartBranchAfterEnd(data) == Position(data, SOI).some /\ ~Position(data, EOI).some
\* main.rs:42: `if let Some(pos) = ..position(|w| w == [0xFF, 0xD8])` is taken
StartBranch(data) == Position(data, SOI).some
\* main.rs:48: `else if let Some(pos) = ..position(|w| w == [0xFF, 0xD9])` is taken
EndBranch(data) == ~StartBranch(data) /\ Position(data, EOI).some
\* main.rs:67: the last `else if` is reached
LastBranch(data) == ~StartBranch(data) /\ ~EndBranch(data)

\* format!("{}/recovered_{}_{}.jpg", _path, group_number, jpeg_start_block.unwrap()):
\* the two numbers of the name
FileName(group_number, start_block) == <<group_number, start_block>>

\* the blocks an image holds (block_size bytes each in the program; here a
\* few bytes, the loop never looks at the length of a block)
BlockPool ==
    { <<18, 52, 255, 216, 153>>,      \* 12 34 FF D8 99: a start marker at 2
      <<170, 255, 217, 0>>,           \* AA FF D9 00: an end marker at 1
      <<216, 7, 255>>,                \* D8 07 FF: no marker, FF last, D8 first
      <<255, 216, 7, 255, 217>>,      \* FF D8 07 FF D9: both markers, start first
      <<255, 217, 9, 255, 217>>,      \* FF D9 09 FF D9: two end markers
      <<255, 217, 255, 216>> }        \* FF D9 FF D8: both markers, end first

\* seek(block_number * block_size) + read_exact of block_size bytes succeeds
\* when the block lies inside the device
Readable(n) == n + 1 <= device.blocks

IsUsedIgnored == FALSE
StartBlockKept == jpeg_start_block
\* main.rs:65: jpeg_start_block = None, after the file was written
StartBlockAfterWrite == None

\* the triple of this iteration
group_number == Call.item.v[1]
block_no == Call.item.v[2]
is_used == Call.item.v[3]

\* the block read in this iteration, appended to the history of free blocks
Read(data) ==
    /\ block_data' = Some(data)
    /\ stream' = Append(stream, [group |-> group_number, block |-> block_no,
                                 data |-> data, idle |-> ~current_jpeg.some])

\* main.rs:24-26: a used block, continue
CarveSkipUsed ==
    /\ pc = "loop"
    /\ Call.item.some
    /\ is_used
    /\ IterAdvance
    /\ block_data' = None
    /\ UNCHANGED <<pc, overflow_checks, device, ext2_fs, current_jpeg, jpeg_start_block, stream, files>>

\* main.rs:32-34: the block lies beyond the device, `?` returns the error
CarveReadError ==
    /\ pc = "loop"
    /\ Call.item.some
    /\ ~is_used
    /\ ~Readable(block_no)
    /\ IterAdvance
    /\ pc' = "error"
    /\ block_data' = None
    /\ UNCHANGED <<overflow_checks, device, ext2_fs, current_jpeg, jpeg_start_block, stream, files>>

\* main.rs:42-47: the block holds a start marker
CarveStart ==
    /\ pc = "loop"
    /\ Call.item.some
    /\ ~is_used
    /\ Readable(block_no)
    /\ \E data \in BlockPool :
           /\ StartBranch(data)
           /\ Read(data)
           /\ jpeg_start_block' = Some(block_no)
           /\ current_jpeg' = Some(SliceFrom(data, Position(data, SOI).v))
    /\ IterAdvance
    /\ UNCHANGED <<pc, overflow_checks, device, ext2_fs, files>>

\* main.rs:48-58: no start marker, an end marker, and a buffer: the block is
\* appended through the end marker, and File::create fails: `?` returns the
\* error, no byte is written
CarveCreateError ==
    /\ pc = "loop"
    /\ Call.item.some
    /\ ~is_used
    /\ Readable(block_no)
    /\ current_jpeg.some
    /\ \E data \in BlockPool :
           /\ EndBranch(data)
           /\ Read(data)
           /\ current_jpeg' = Some(current_jpeg.v \o SliceThrough(data, Position(data, EOI).v))
    /\ IterAdvance
    /\ pc' = "create_error"
    /\ UNCHANGED <<overflow_checks, device, ext2_fs, jpeg_start_block, files>>

\* main.rs:48-59: as above, the file is created and write_all fails: `?`
\* returns the error after some of the bytes, but not all, were written
CarveWriteError ==
    /\ pc = "loop"
    /\ Call.item.some
    /\ ~is_used
    /\ Readable(block_no)
    /\ current_jpeg.some
    /\ \E data \in BlockPool :
           /\ EndBranch(data)
           /\ Read(data)
           /\ LET jpeg_data == current_jpeg.v \o SliceThrough(data, Position(data, EOI).v)
              IN  /\ \E n \in 0..(Len(jpeg_data) - 1) :
                         files' = Append(files,
                                         [name |-> FileName(group_number, jpeg_start_block.v),
                                          data |-> SubSeq(jpeg_data, 1, n),
                                          at |-> Len(stream) + 1])
                  /\ current_jpeg' = Some(jpeg_data)
    /\ IterAdvance
    /\ pc' = "write_error"
    /\ UNCHANGED <<overflow_checks, device, ext2_fs, jpeg_start_block>>

\* main.rs:48-66: no start marker, an end marker, and a buffer: the file is
\* created and written whole
CarveEndWrite ==
    /\ pc = "loop"
    /\ Call.item.some
    /\ ~is_used
    /\ Readable(block_no)
    /\ current_jpeg.some
    /\ \E data \in BlockPool :
           /\ EndBranch(data)
           /\ Read(data)
           /\ LET jpeg_data == current_jpeg.v \o SliceThrough(data, Position(data, EOI).v)
              IN  files' = Append(files,
                                  [name |-> FileName(group_number, jpeg_start_block.v),
                                   data |-> jpeg_data,
                                   at |-> Len(stream) + 1])
           /\ current_jpeg' = None
           /\ jpeg_start_block' = StartBlockAfterWrite
    /\ IterAdvance
    /\ UNCHANGED <<pc, overflow_checks, device, ext2_fs>>

\* main.rs:48-51: no start marker, an end marker, but no buffer: nothing happens
CarveEndIdle ==
    /\ pc = "loop"
    /\ Call.item.some
    /\ ~is_used
    /\ Readable(block_no)
    /\ ~current_jpeg.some
    /\ \E data \in BlockPool :
           /\ EndBranch(data)
           /\ Read(data)
    /\ IterAdvance
    /\ UNCHANGED <<pc, overflow_checks, device, ext2_fs, current_jpeg, jpeg_start_block, files>>

\* main.rs:67-70: no marker and a buffer: the whole block is appended
CarveContinue ==
    /\ pc = "loop"
    /\ Call.item.some
    /\ ~is_used
    /\ Readable(block_no)
    /\ current_jpeg.some
    /\ \E data \in BlockPool :
           /\ LastBranch(data)
           /\ Read(data)
           /\ current_jpeg' = Some(current_jpeg.v \o data)
    /\ IterAdvance
    /\ UNCHANGED <<pc, overflow_checks, device, ext2_fs, jpeg_start_block, files>>

\* main.rs:67: no marker and no buffer: nothing happens
CarveIdle ==
    /\ pc = "loop"
    /\ Call.item.some
    /\ ~is_used
    /\ Readable(block_no)
    /\ ~current_jpeg.some
    /\ \E data \in BlockPool :
           /\ LastBranch(data)
           /\ Read(data)
    /\ IterAdvance
    /\ UNCHANGED <<pc, overflow_checks, device, ext2_fs, current_jpeg, jpeg_start_block, files>>

\* main.rs:23, 73: the iterator is exhausted, the loop ends and Ok(()) is
\* returned; the locals are dropped as they are
CarveDone ==
    /\ pc = "loop"
    /\ ~Call.item.some
    /\ IterAdvance
    /\ pc' = "done"
    /\ UNCHANGED <<overflow_checks, device, ext2_fs, carve_vars>>

\* the devices of the carving runs: a loaded file system with at most
\* MaxFree free data blocks, on a device that holds every block the bitmaps
\* count, or two blocks less
Init ==
    /\ pc = "loop"
    /\ overflow_checks = TRUE
    /\ ext2_fs \in {fs \in FileSystems({"mixed", "high"}, {3, 12},
                                         MaxGroups, MaxBytes) :
                        Cardinality(FreePositions(fs)) <= MaxFree}
    /\ \E total \in {8 * SumLen(ext2_fs.block_bitmaps, Len(ext2_fs.block_bitmaps))} :
           device \in {[blocks |-> total + 1], [blocks |-> total - 1]}
    /\ IterFresh
    /\ Idle

Next ==
    \/ CarveSkipUsed
    \/ CarveReadError
    \/ CarveStart
    \/ CarveCreateError
    \/ CarveWriteError
    \/ CarveEndWrite
    \/ CarveEndIdle
    \/ CarveContinue
    \/ CarveIdle
    \/ CarveDone

Spec == Init /\ [][Next]_vars

----------------------------------------------------------------------------
(* Ext2FS::new (ext2.rs:372-510) on a device image *)

\* the byte of the device at an absolute offset; the device is zero wherever
\* the image wrote nothing
Byte(off) == IF off \in DOMAIN device.bytes THEN device.bytes[off] ELSE 0

\* u16::from_le_bytes, u32::from_le_bytes of the bytes at off
U16(off) == Byte(off) + 256 * Byte(off + 1)
U32(off) ==
    Byte(off) + 256 * Byte(off + 1) + 65536 * Byte(off + 2) + 16777216 * Byte(off + 3)

\* seek(SeekFrom::Start(off)) + read_exact of len bytes: Ok when the bytes
\* are on the device (an empty buffer is always filled)
ReadExact(off, len) == len = 0 \/ off + len <= device.size

\* byte k (0 = least significant) of the u32 n
ByteOf(n, k) ==
    (n \div (CASE k = 0 -> 1 [] k = 1 -> 256 [] k = 2 -> 65536 [] k = 3 -> 16777216)) % 256

\* a * b on u32: `overflow` when the product does not fit 32 bits, v the low
\* 32 bits of the product.  (Long multiplication on the bytes of a and b:
\* the model checker's integers end at 2^31 - 1 and cannot hold the product
\* itself.  c[k] is the sum of the byte products of column k, r[k] what
\* column k holds with the carry of the columns below.)
MulU32(a0, b0) ==
    LET mul[a \in Nat, b \in Nat] ==
            LET x == [k \in 0..3 |-> ByteOf(a, k)]
                y == [k \in 0..3 |-> ByteOf(b, k)]
                c == [k \in 0..6 |->
                         (IF k <= 3 THEN x[0] * y[k] ELSE 0)
                         + (IF k - 1 \in 0..3 THEN x[1] * y[k - 1] ELSE 0)
                         + (IF k - 2 \in 0..3 THEN x[2] * y[k - 2] ELSE 0)
                         + (IF k - 3 \in 0..3 THEN x[3] * y[k - 3] ELSE 0)]
                r0 == c[0]
                r1 == c[1] + (r0 \div 256)
                r2 == c[2] + (r1 \div 256)
                r3 == c[3] + (r2 \div 256)
            IN  [overflow |-> (r3 \div 256) + c[4] + c[5] + c[6] > 0,
                 v |-> (r0 % 256) + 256 * (r1 % 256) + 65536 * (r2 % 256)
                       + 16777216 * (r3 % 256)]
    IN  mul[a0, b0]

\* a + b on u32: `overflow` when the sum does not fit 32 bits, v its low 32
\* bits (added byte by byte, r[k] with the carry of the bytes below)
AddU32(a0, b0) ==
    LET add[a \in Nat, b \in Nat] ==
            LET r0 == ByteOf(a, 0) + ByteOf(b, 0)
                r1 == ByteOf(a, 1) + ByteOf(b, 1) + (r0 \div 256)
                r2 == ByteOf(a, 2) + ByteOf(b, 2) + (r1 \div 256)
                r3 == ByteOf(a, 3) + ByteOf(b, 3) + (r2 \div 256)
            IN  [overflow |-> (r3 \div 256) > 0,
                 v |-> (r0 % 256) + 256 * (r1 % 256) + 65536 * (r2 % 256)
                       + 16777216 * (r3 % 256)]
    IN  add[a0, b0]

\* what MulU32 and AddU32 give
U32Result == [overflow : BOOLEAN, v : Nat]

\* an overflowing u32 `*` or `+` panics in a build with overflow checks and
\* wraps in a build without
OverflowPanics(r) == overflow_checks /\ r.overflow

\* 1024 << log_block_size on u32.  A shift by 32 or more panics in a build
\* with overflow checks and is taken modulo 32 in a build without; the bits
\* shifted beyond bit 31 are lost, so 1024 << k is 0 for k in 22..31.
\* (The model checker's integers end at 2^31 - 1: the images keep
\* log_block_size % 32 away from 21, the one shift whose result, 2^31, they
\* cannot hold, and every u32 they give rise to below 2^31.)
Shl1024(log_block_size) ==
    [panic |-> overflow_checks /\ log_block_size >= 32,
     v |-> LET k == log_block_size % 32
           IN  IF 10 + k >= 32 THEN 0 ELSE 1024 * Pow2(k)]

\* Superblock::new on the buffer read at `base`
SuperblockNew(base) ==
    LET log_block_size == U32(base + 24)
        block_size == Shl1024(log_block_size)
    IN  [panic |-> block_size.panic,
         v |-> [inodes_count |-> U32(base),
                blocks_count |-> U32(base + 4),
                block_size |-> block_size.v,
                blocks_per_group |-> U32(base + 32),
                inodes_per_group |-> U32(base + 40),
                rev_level |-> U32(base + 76),
                inode_size |-> U16(base + 88)]]

\* BlockGroupDescriptor::new on the 32 bytes at off: None when
\* bg_block_bitmap is 0 (the counts and the reserved bytes are only printed)
BlockGroupDescriptorNew(off) ==
    LET bg_block_bitmap == U32(off)
    IN  IF bg_block_bitmap = 0
        THEN None
        ELSE Some([bg_block_bitmap |-> bg_block_bitmap,
                   bg_inode_bitmap |-> U32(off + 4),
                   bg_inode_table |-> U32(off + 8)])

\* Inode::new on the 128 bytes at off: None when i_mode is 0 (the other
\* fields are only printed)
InodeNew(off) ==
    LET i_mode == U16(off)
    IN  IF i_mode = 0 THEN None ELSE Some([i_mode |-> i_mode])

\* block_size if block_size > 1024, else 2 * block_size
DescriptorTableOffset(block_size) ==
    IF block_size > 1024 THEN block_size ELSE 2 * block_size

\* block_size / 32
BlockGroupsNumber(block_size) == block_size \div 32

RECURSIVE ParseDescriptorsSkipInvalid(_, _, _, _)
ParseDescriptorsSkipInvalid(table, i, n, acc) ==
    IF i >= n
    THEN acc
    ELSE LET d == BlockGroupDescriptorNew(table + 32 * i)
         IN  IF d.some
             THEN ParseDescriptorsSkipInvalid(table, i + 1, n, Append(acc, d.v))
             ELSE ParseDescriptorsSkipInvalid(table, i + 1, n, acc)

RECURSIVE ParseLoop(_, _, _, _)
\* for i in 0..block_groups_number: push the descriptor, break at the first None
ParseLoop(table, i, n, acc) ==
    IF i >= n
    THEN acc
    ELSE LET d == BlockGroupDescriptorNew(table + 32 * i)
         IN  IF d.some
             THEN ParseLoop(table, i + 1, n, Append(acc, d.v))
             ELSE acc

\* the loop of ext2.rs:414-424 on the table read at `table`
ParseDescriptors(table, i, n, acc) == ParseLoop(table, i, n, acc)

RECURSIVE ReadBitmaps(_, _, _, _)
\* ext2.rs:441-451: for every descriptor, compute bg_block_bitmap *
\* block_size on u32, then read blocks_per_group / 8 bytes there
ReadBitmaps(sb, descs, g, acc) ==
    IF g > Len(descs)
    THEN [end |-> "ok", v |-> acc]
    ELSE LET block_bitmap_size == sb.blocks_per_group \div 8
             block_bitmap_offset == MulU32(descs[g].bg_block_bitmap, sb.block_size)
         IN  IF OverflowPanics(block_bitmap_offset)
             THEN [end |-> "panic", v |-> acc]
             ELSE IF ~ReadExact(block_bitmap_offset.v, block_bitmap_size)
                  THEN [end |-> "io_error", v |-> acc]
                  ELSE ReadBitmaps(sb, descs, g + 1,
                           Append(acc, [k \in 1..block_bitmap_size |->
                                            Byte(block_bitmap_offset.v + k - 1)]))

\* superblock.inode_size() as u32
InodeSize(sb) == sb.inode_size

\* ext2.rs:459-469: inodes_per_group / (block_size / inode_size) plus each
\* group's bg_inode_table, on u32; a division by zero panics in every build
DataBlocksOffsets(sb, descs) ==
    IF InodeSize(sb) = 0 \/ sb.block_size \div InodeSize(sb) = 0
    THEN [end |-> "panic", v |-> <<>>]
    ELSE LET inode_table_size == sb.inodes_per_group \div (sb.block_size \div InodeSize(sb))
             data_block_offset(g) == AddU32(inode_table_size, descs[g].bg_inode_table)
         IN  IF \E g \in 1..Len(descs) : OverflowPanics(data_block_offset(g))
             THEN [end |-> "panic", v |-> <<>>]
             ELSE [end |-> "ok",
                   v |-> [g \in 1..Len(descs) |-> data_block_offset(g).v]]

RECURSIVE ReadInodes(_, _, _, _, _)
\* ext2.rs:477-493: for every descriptor, compute bg_inode_table *
\* block_size on u32 (before the inner loop, also when it runs no round);
\* then for every inode_index in 0..inodes_per_group compute
\* inode_table_offset + inode_index * 128 on u32, read 128 bytes there and
\* keep the inode if Inode::new gives one.  (group, scaled and one take the
\* results of the three u32 operations in the order the code computes them.)
ReadInodes(sb, descs, g, inode_index, acc) ==
    IF g > Len(descs)
    THEN [end |-> "ok", v |-> acc]
    ELSE LET group[inode_table_offset \in U32Result] ==
                 IF OverflowPanics(inode_table_offset)
                 THEN [end |-> "panic", v |-> acc]
                 ELSE IF inode_index >= sb.inodes_per_group
                 THEN ReadInodes(sb, descs, g + 1, 0, acc)
                 ELSE LET one[inode_offset \in U32Result] ==
                              IF OverflowPanics(inode_offset)
                              THEN [end |-> "panic", v |-> acc]
                              ELSE IF ~ReadExact(inode_offset.v, 128)
                              THEN [end |-> "io_error", v |-> acc]
                              ELSE LET inode == InodeNew(inode_offset.v)
                                   IN  ReadInodes(sb, descs, g, inode_index + 1,
                                                  IF inode.some THEN Append(acc, inode.v)
                                                                ELSE acc)
                          scaled[index_offset \in U32Result] ==
                              IF OverflowPanics(index_offset)
                              THEN [end |-> "panic", v |-> acc]
                              ELSE one[AddU32(inode_table_offset.v, index_offset.v)]
                      IN  scaled[MulU32(inode_index, 128)]
         IN  group[MulU32(descs[g].bg_inode_table, sb.block_size)]

\* the locals of Ext2FS::new before anything is read; `progress` counts the
\* parts of the function that have completed
NothingLoaded ==
    [progress |-> 0, super_block |-> None, block_group_descriptors |-> <<>>,
     block_bitmaps |-> <<>>, data_blocks_offsets |-> <<>>, inode_table |-> <<>>]

\* ext2.rs:374-380: read the superblock at offset 1024 and decode it
LoadSuperblock ==
    /\ pc = "new"
    /\ IF ~ReadExact(1024, 1024)
       THEN pc' = "io_error" /\ UNCHANGED ext2_fs
       ELSE LET superblock == SuperblockNew(1024)
            IN  IF superblock.panic
                THEN pc' = "panic" /\ UNCHANGED ext2_fs
                ELSE /\ pc' = "descriptors"
                     /\ ext2_fs' = [ext2_fs EXCEPT !.progress = 1,
                                                   !.super_block = superblock.v]
    /\ UNCHANGED <<overflow_checks, device, iter_vars, carve_vars>>

\* ext2.rs:385-424: read the descriptor table and parse it
LoadDescriptors ==
    /\ pc = "descriptors"
    /\ LET block_size == ext2_fs.super_block.block_size
           descriptor_table_offset == DescriptorTableOffset(block_size)
           block_groups_number == BlockGroupsNumber(block_size)
       IN  IF ~ReadExact(descriptor_table_offset, 32 * block_groups_number)
           THEN pc' = "io_error" /\ UNCHANGED ext2_fs
           ELSE /\ pc' = "bitmaps"
                /\ ext2_fs' = [ext2_fs EXCEPT
                       !.progress = 2,
                       !.block_group_descriptors =
                           ParseDescriptors(descriptor_table_offset, 0,
                                            block_groups_number, <<>>)]
    /\ UNCHANGED <<overflow_checks, device, iter_vars, carve_vars>>

\* ext2.rs:437-451: read every group's block bitmap
LoadBitmaps ==
    /\ pc = "bitmaps"
    /\ LET r == ReadBitmaps(ext2_fs.super_block, ext2_fs.block_group_descriptors, 1, <<>>)
       IN  IF r.end # "ok"
           THEN pc' = r.end /\ UNCHANGED ext2_fs
           ELSE /\ pc' = "offsets"
                /\ ext2_fs' = [ext2_fs EXCEPT !.progress = 3, !.block_bitmaps = r.v]
    /\ UNCHANGED <<overflow_checks, device, iter_vars, carve_vars>>

\* ext2.rs:459-469: the first data block of every group
ComputeOffsets ==
    /\ pc = "offsets"
    /\ LET r == DataBlocksOffsets(ext2_fs.super_block, ext2_fs.block_group_descriptors)
       IN  IF r.end # "ok"
           THEN pc' = r.end /\ UNCHANGED ext2_fs
           ELSE /\ pc' = "inodes"
                /\ ext2_fs' = [ext2_fs EXCEPT !.progress = 4, !.data_blocks_offsets = r.v]
    /\ UNCHANGED <<overflow_checks, device, iter_vars, carve_vars>>

\* ext2.rs:475-509: read the inode tables and return Ok(Ext2FS)
LoadInodes ==
    /\ pc = "inodes"
    /\ LET r == ReadInodes(ext2_fs.super_block, ext2_fs.block_group_descriptors, 1, 0, <<>>)
       IN  IF r.end # "ok"
           THEN pc' = r.end /\ UNCHANGED ext2_fs
           ELSE /\ pc' = "loaded"
                /\ ext2_fs' = [ext2_fs EXCEPT !.progress = 5, !.inode_table = r.v]
    /\ UNCHANGED <<overflow_checks, device, iter_vars, carve_vars>>

----------------------------------------------------------------------------
(* The device images Ext2FS::new is run on: an ext2 layout with 1024-byte  *)
(* blocks whose superblock fields and descriptor slots vary                *)

\* `width` bytes at off holding value, least significant byte first
LE(off, width, value) ==
    [o \in off..(off + width - 1) |-> (value \div Pow2(8 * (o - off))) % 256]

\* a sequence of bytes at off
BytesAt(off, bs) == [o \in off..(off + Len(bs) - 1) |-> bs[o - off + 1]]

\* the sequences over S of length at most n
SeqsUpTo(S, n) == UNION {[1..m -> S] : m \in 0..n}

\* descriptor slots: <<bg_block_bitmap, bg_inode_bitmap, bg_inode_table>>
SlotPool == { <<3, 4, 5>>, <<8, 9, 10>>, <<0, 4, 5>> }

\* slots whose block numbers make a u32 product overflow: 4194307 * 1024 is
\* 2^32 + 3072 (ext2.rs:442) and 4194309 * 1024 is 2^32 + 5120 (ext2.rs:478)
OverflowSlotPool == { <<4194307, 4, 5>>, <<3, 4, 4194309>> }

RECURSIVE SlotBytes(_, _)
SlotBytes(slots, k) ==
    IF k = 0
    THEN <<>>
    ELSE LET off == 2048 + 32 * (k - 1)
         IN  LE(off, 4, slots[k][1]) @@ LE(off + 4, 4, slots[k][2])
             @@ LE(off + 8, 4, slots[k][3]) @@ LE(off + 12, 2, 7)
             @@ SlotBytes(slots, k - 1)

Image(log_block_size, rev_level, inode_size, blocks_per_group, slots, size) ==
    [size |-> size,
     bytes |->
        LE(1024, 4, 32) @@ LE(1028, 4, 16)
        @@ LE(1048, 4, log_block_size)
        @@ LE(1056, 4, blocks_per_group)
        @@ LE(1064, 4, 16)
        @@ LE(1100, 4, rev_level)
        @@ LE(1112, 2, inode_size)
        @@ SlotBytes(slots, Len(slots))
        @@ BytesAt(3072, <<5, 250>>)            \* block 3: block bitmap of group 0
        @@ BytesAt(4096, <<255, 3>>)            \* block 4: inode bitmap of group 0
        @@ LE(5120, 2, 16877) @@ LE(5376, 2, 33188)   \* blocks 5-6: inodes 0 and 2
        @@ BytesAt(8192, <<160, 255>>)          \* block 8: block bitmap of group 1
        @@ LE(10240 + 128, 2, 33188)]           \* blocks 10-11: inode 1 of group 1

Images ==
    {Image(l, r, s, b, slots, size) :
        l \in {0, 1, 2, 22, 32},
        r \in {0, 1},
        s \in {0, 128, 256},
        b \in {8, 16},
        slots \in SeqsUpTo(SlotPool, MaxSlots),
        size \in {16384, 5632}}
    \cup
    {Image(l, 1, 128, 8, slots, 16384) :
        l \in {0, 1},
        slots \in SeqsUpTo(SlotPool \cup OverflowSlotPool, MaxSlots)}

InitLoad ==
    /\ pc = "new"
    /\ overflow_checks \in BOOLEAN
    /\ device \in Images
    /\ ext2_fs = NothingLoaded
    /\ IterFresh
    /\ Idle

NextLoad ==
    \/ LoadSuperblock
    \/ LoadDescriptors
    \/ LoadBitmaps
    \/ ComputeOffsets
    \/ LoadInodes

SpecLoad == InitLoad /\ [][NextLoad]_vars

----------------------------------------------------------------------------
(* Claims about the free-block iterator, checked under SpecIter and *)
(* SpecIterFair *)

\* the bitmap byte b (0-based) of group g (0-based) of the loaded file system
BitmapByteAt(g, b) == ext2_fs.block_bitmaps[g + 1][b + 1]

\* every bit position of the loaded bitmaps: <<group, byte, bit>>, 0-based
Positions == PositionsOf(ext2_fs)

\* the global 1-based number of the bit at a position
PositionBlock(p) == BlockOf(ext2_fs, p)

\* C4: a bit whose global block number is <= its group's data_blocks_offsets
\* entry is never yielded, whatever its value; every yielded triple
\* (g+1, n, used) has n > data_blocks_offsets[g].
C4_MetadataNeverYielded ==
    /\ \A k \in 1..Len(yielded) :
            yielded[k].block > ext2_fs.data_blocks_offsets[yielded[k].group]
    /\ \A p \in Positions :
            PositionBlock(p) <= ext2_fs.data_blocks_offsets[p[1] + 1]
            => \A k \in 1..Len(yielded) :
                   <<yielded[k].g, yielded[k].b, yielded[k].i>> # p

\* C4 witness: the iterator is exhausted, it skipped a bit that the bitmap
\* reports free (0) as metadata, and it yielded later bits of the same group
C4_Witness ==
    /\ pc = "exhausted"
    /\ \E p \in Positions :
           /\ PositionBlock(p) <= ext2_fs.data_blocks_offsets[p[1] + 1]
           /\ (BitmapByteAt(p[1], p[2]) \div Pow2(p[3])) % 2 = 0
           /\ \E k \in 1..Len(yielded) : yielded[k].g = p[1]

\* C5: the triple yielded for bit i of a bitmap byte reports
\* is_used = (((byte >> i) & 1) = 1), least-significant bit first; with
\* threshold 0 and first byte 0b00000101 the first three triples are blocks
\* 1, 2, 3 with is_used true, false, true.
C5_LsbFirst ==
    /\ \A k \in 1..Len(yielded) :
            yielded[k].used =
                ((BitmapByteAt(yielded[k].g, yielded[k].b) \div Pow2(yielded[k].i)) % 2 = 1)
    /\ ( /\ Len(ext2_fs.block_bitmaps) >= 1
         /\ Len(ext2_fs.block_bitmaps[1]) >= 1
         /\ ext2_fs.block_bitmaps[1][1] = 5
         /\ ext2_fs.data_blocks_offsets[1] = 0
         /\ Len(yielded) >= 3 )
       => /\ <<yielded[1].group, yielded[1].block, yielded[1].used>> = <<1, 1, TRUE>>
          /\ <<yielded[2].group, yielded[2].block, yielded[2].used>> = <<1, 2, FALSE>>
          /\ <<yielded[3].group, yielded[3].block, yielded[3].used>> = <<1, 3, TRUE>>

\* C5 witness: three triples were yielded from a first byte 0b00000101 with
\* threshold 0
C5_Witness ==
    /\ Len(ext2_fs.block_bitmaps) >= 1
    /\ Len(ext2_fs.block_bitmaps[1]) >= 1
    /\ ext2_fs.block_bitmaps[1][1] = 5
    /\ ext2_fs.data_blocks_offsets[1] = 0
    /\ Len(yielded) >= 3

\* C10: block numbers strictly increase and group numbers never decrease
\* along the yielded triples; the counter counts every bitmap bit once and is
\* not reset between groups, so the bit at (g, b, i) carries block number
\* 1 + 8 * (bitmap bytes of the groups before g) + 8 * b + i.
C10_OrderAndNumbering ==
    /\ \A k \in 1..Len(yielded) :
            /\ yielded[k].block = PositionBlock(<<yielded[k].g, yielded[k].b, yielded[k].i>>)
            /\ yielded[k].group = yielded[k].g + 1
    /\ \A k \in 1..(Len(yielded) - 1) :
            /\ yielded[k].block < yielded[k + 1].block
            /\ yielded[k].group <= yielded[k + 1].group
    /\ block_number = 8 * SumLen(ext2_fs.block_bitmaps, current_group)
                        + 8 * current_byte + current_bit

\* C10 witness: a triple of the second group was yielded after triples of the
\* first group, with metadata bits skipped in the second group
C10_Witness ==
    /\ Len(yielded) >= 2
    /\ yielded[1].group = 1
    /\ yielded[Len(yielded)].group = 2
    /\ ext2_fs.data_blocks_offsets[2] > 8 * Len(ext2_fs.block_bitmaps[1])

\* the number of bytes of all loaded bitmaps
TotalBitmapBytes == SumLen(ext2_fs.block_bitmaps, Len(ext2_fs.block_bitmaps))

\* the bit position <<group, byte, bit>> of the k-th yield
YieldedAt(k) == <<yielded[k].g, yielded[k].b, yielded[k].i>>

\* position p comes before position q in the order group, byte, bit
Before(p, q) ==
    \/ p[1] < q[1]
    \/ p[1] = q[1] /\ p[2] < q[2]
    \/ p[1] = q[1] /\ p[2] = q[2] /\ p[3] < q[3]

\* at most 8 yields per bitmap byte, every yield at a position after all
\* earlier ones, and nothing but None once None was returned
C11_Safe ==
    /\ Len(yielded) <= 8 * TotalBitmapBytes
    /\ \A j, k \in 1..Len(yielded) : j < k => Before(YieldedAt(j), YieldedAt(k))
    /\ nones >= 1 => ~item.some

\* a call never moves the cursor back, and a call after None yields nothing
C11_Forward ==
    /\ ~Before(<<current_group', current_byte', current_bit'>>,
               <<current_group, current_byte, current_bit>>)
    /\ nones >= 1 => yielded' = yielded /\ ~item'.some

\* C11: on any finite set of loaded bitmaps, repeated calls of next()
\* eventually return None, after at most 8 * (total bitmap bytes) yields; no
\* (group, byte, bit) position is visited twice; once None has been returned
\* every later call returns None as well.
C11_Terminates ==
    /\ []C11_Safe
    /\ [][C11_Forward]_vars
    /\ <>[](nones >= 1 /\ ~item.some)

\* the iterator has yielded, has skipped metadata bits, and was called again
\* after its first None
C11_Witness ==
    /\ nones >= 2
    /\ ~item.some
    /\ Len(yielded) >= 2
    /\ Len(yielded) < 8 * TotalBitmapBytes

----------------------------------------------------------------------------
(* Claims about the carving loop, checked under Spec *)

\* the marker w stands at offset p (0-based) of data
MarkerAt(data, w, p) ==
    /\ p + 2 <= Len(data)
    /\ data[p + 1] = w[1]
    /\ data[p + 2] = w[2]

HasMarker(data, w) == \E p \in 0..(Len(data) - 2) : MarkerAt(data, w, p)

\* the first marker w of data stands at offset p
FirstMarkerAt(data, w, p) ==
    /\ MarkerAt(data, w, p)
    /\ \A q \in 0..(p - 1) : ~MarkerAt(data, w, q)

IsPrefix(a, b) == Len(a) <= Len(b) /\ SubSeq(b, 1, Len(a)) = a

RECURSIVE ConcatData(_, _, _)
\* the bytes of the blocks stream[from..to], in order
ConcatData(st, from, to) ==
    IF from > to THEN <<>> ELSE ConcatData(st, from, to - 1) \o st[to].data

\* stream[i..j] is a run as in C1: A with a start marker read while Idle,
\* blocks without markers, E with an end marker and no start marker
IsRun(i, j) ==
    /\ i < j
    /\ stream[i].idle
    /\ HasMarker(stream[i].data, SOI)
    /\ \A m \in (i + 1)..(j - 1) :
           ~HasMarker(stream[m].data, SOI) /\ ~HasMarker(stream[m].data, EOI)
    /\ ~HasMarker(stream[j].data, SOI)
    /\ HasMarker(stream[j].data, EOI)

\* C1: read while Idle, a free block A with its first FF D8 at p, then
\* blocks B1..Bk without markers, then a block E without FF D8 whose first
\* FF D9 is at q, give exactly one file, with the bytes
\* A[p..] ++ B1 ++ .. ++ Bk ++ E[0..=q+1]; the blocks 12 34 FF D8 99 and
\* AA FF D9 00 give the file FF D8 99 AA FF D9.
C1_Reassembly ==
    /\ \A i, j \in 1..Len(stream) :
          IsRun(i, j) =>
            \A p \in 0..(Len(stream[i].data) - 2), q \in 0..(Len(stream[j].data) - 2) :
              (FirstMarkerAt(stream[i].data, SOI, p) /\ FirstMarkerAt(stream[j].data, EOI, q))
              => LET written == {k \in 1..Len(files) : files[k].at \in i..j}
                 IN  /\ Cardinality(written) = 1
                     /\ \A k \in written :
                           /\ files[k].at = j
                           /\ files[k].data =
                                 SubSeq(stream[i].data, p + 1, Len(stream[i].data))
                                 \o ConcatData(stream, i + 1, j - 1)
                                 \o SubSeq(stream[j].data, 1, q + 2)
    /\ \A i \in 1..(Len(stream) - 1) :
          ( /\ stream[i].idle
            /\ stream[i].data = <<18, 52, 255, 216, 153>>
            /\ stream[i + 1].data = <<170, 255, 217, 0>> )
          => /\ Cardinality({k \in 1..Len(files) : files[k].at \in i..(i + 1)}) = 1
             /\ \E k \in 1..Len(files) :
                   files[k].at = i + 1 /\ files[k].data = <<255, 216, 153, 170, 255, 217>>

\* File::create or write_all failed for the block read last, and ended the run
OutputFailed == pc \in {"create_error", "write_error"}

\* C1 as it holds: the run A, B1..Bk, E gives exactly one file with the bytes
\* A[p..] ++ B1 ++ .. ++ Bk ++ E[0..=q+1] when the file can be created and
\* written; when File::create fails at E no file is written for the run, and
\* when write_all fails at E the one file holds a proper prefix of these bytes.
C1_ReassemblyUnlessOutputFails ==
    /\ \A i, j \in 1..Len(stream) :
          IsRun(i, j) =>
            \A p \in 0..(Len(stream[i].data) - 2), q \in 0..(Len(stream[j].data) - 2) :
              (FirstMarkerAt(stream[i].data, SOI, p) /\ FirstMarkerAt(stream[j].data, EOI, q))
              => LET written == {k \in 1..Len(files) : files[k].at \in i..j}
                     bytes == SubSeq(stream[i].data, p + 1, Len(stream[i].data))
                              \o ConcatData(stream, i + 1, j - 1)
                              \o SubSeq(stream[j].data, 1, q + 2)
                 IN  CASE OutputFailed /\ j = Len(stream) /\ pc = "create_error" ->
                            written = {}
                       [] OutputFailed /\ j = Len(stream) /\ pc = "write_error" ->
                            /\ Cardinality(written) = 1
                            /\ \A k \in written :
                                  /\ files[k].at = j
                                  /\ IsPrefix(files[k].data, bytes)
                                  /\ Len(files[k].data) < Len(bytes)
                       [] OTHER ->
                            /\ Cardinality(written) = 1
                            /\ \A k \in written :
                                  files[k].at = j /\ files[k].data = bytes
    /\ \A i \in 1..(Len(stream) - 1) :
          ( /\ stream[i].idle
            /\ stream[i].data = <<18, 52, 255, 216, 153>>
            /\ stream[i + 1].data = <<170, 255, 217, 0>>
            /\ ~(OutputFailed /\ i + 1 = Len(stream)) )
          => /\ Cardinality({k \in 1..Len(files) : files[k].at \in i..(i + 1)}) = 1
             /\ \E k \in 1..Len(files) :
                   files[k].at = i + 1 /\ files[k].data = <<255, 216, 153, 170, 255, 217>>

\* C1 witness: a run 12 34 FF D8 99, one block without markers, AA FF D9 00
\* was read and its file written
C1_Witness ==
    \E i \in 1..(Len(stream) - 2) :
        /\ IsRun(i, i + 2)
        /\ stream[i].data = <<18, 52, 255, 216, 153>>
        /\ stream[i + 2].data = <<170, 255, 217, 0>>
        /\ \E k \in 1..Len(files) : files[k].at = i + 2

\* C2: a free block with a start marker that is read while the carver is
\* Accumulating does not reset the buffer: the bytes accumulated so far stay
\* a prefix of the buffer and the recorded start block is unchanged.
C2_NoResetWhileAccumulating ==
    [][ ( /\ current_jpeg.some
          /\ Len(stream') = Len(stream) + 1
          /\ HasMarker(stream'[Len(stream')].data, SOI) )
        => ( /\ current_jpeg'.some
             /\ IsPrefix(current_jpeg.v, current_jpeg'.v)
             /\ jpeg_start_block' = jpeg_start_block ) ]_vars

\* C3: a file is written only when an end marker is found while
\* Accumulating, so every written file starts with FF D8 and ends with FF D9;
\* when the iterator is exhausted while Accumulating, no file was written for
\* the buffer that is dropped.
C3_NoPartialFile ==
    /\ \A k \in 1..Len(files) :
          LET f == files[k] IN
            /\ Len(f.data) >= 4
            /\ SubSeq(f.data, 1, 2) = <<255, 216>>
            /\ SubSeq(f.data, Len(f.data) - 1, Len(f.data)) = <<255, 217>>
            /\ f.at \in 1..Len(stream)
            /\ ~stream[f.at].idle
            /\ HasMarker(stream[f.at].data, EOI)
    /\ Len(files) = Cardinality({m \in 1..Len(stream) :
                                  /\ ~stream[m].idle
                                  /\ ~HasMarker(stream[m].data, SOI)
                                  /\ HasMarker(stream[m].data, EOI)})
    /\ (pc = "done" /\ current_jpeg.some)
          => \A k \in 1..Len(files) :
                stream[files[k].at].block < jpeg_start_block.v

\* the k-th file starts with FF D8, ends with FF D9 and was written at a
\* block with an end marker that was read while Accumulating
WholeFile(k) ==
    LET f == files[k] IN
      /\ Len(f.data) >= 4
      /\ SubSeq(f.data, 1, 2) = <<255, 216>>
      /\ SubSeq(f.data, Len(f.data) - 1, Len(f.data)) = <<255, 217>>
      /\ f.at \in 1..Len(stream)
      /\ ~stream[f.at].idle
      /\ HasMarker(stream[f.at].data, EOI)

\* C3 as it holds: a file is written only when an end marker is found while
\* Accumulating; every file whose write completed starts with FF D8 and ends
\* with FF D9; only when write_all fails, which ends the run, the file of
\* the block read last holds a proper prefix of the buffer, and when
\* File::create fails, which ends the run too, that block has no file; when
\* the iterator is exhausted while Accumulating no file was written for the
\* buffer that is dropped.
C3_NoPartialFileUnlessWriteFails ==
    /\ \A k \in 1..Len(files) :
          \/ WholeFile(k)
          \/ /\ pc = "write_error"
             /\ k = Len(files)
             /\ files[k].at = Len(stream)
             /\ ~stream[files[k].at].idle
             /\ HasMarker(stream[files[k].at].data, EOI)
             /\ IsPrefix(files[k].data, current_jpeg.v)
             /\ Len(files[k].data) < Len(current_jpeg.v)
    /\ pc # "write_error" => \A k \in 1..Len(files) : WholeFile(k)
    /\ Len(files) + (IF pc = "create_error" THEN 1 ELSE 0)
          = Cardinality({m \in 1..Len(stream) :
                           /\ ~stream[m].idle
                           /\ ~HasMarker(stream[m].data, SOI)
                           /\ HasMarker(stream[m].data, EOI)})
    /\ (pc = "done" /\ current_jpeg.some)
          => \A k \in 1..Len(files) :
                stream[files[k].at].block < jpeg_start_block.v

\* C3 witness: the loop has ended while Accumulating, after a file was written
C3_Witness ==
    /\ pc = "done"
    /\ current_jpeg.some
    /\ Len(files) >= 1

\* C9: a file is named by the block in which its start marker was found and
\* by the group number of that same block, also when the end marker lies in a
\* later group.
C9_NamedByStartGroup ==
    \A k \in 1..Len(files) :
        \E m \in 1..(files[k].at - 1) :
            /\ HasMarker(stream[m].data, SOI)
            /\ files[k].name[2] = stream[m].block
            /\ files[k].name[1] = stream[m].group

\* the free block read last
LastRead == stream[Len(stream)]

\* C12: in one visit of a free block the start marker is checked first and
\* the end-marker branch is reached only when the block has no start marker:
\* no file is written in the visit of a block that holds a start marker, and
\* after the visit, while Idle, of a block that holds both markers the buffer
\* is the block's bytes from its first start marker to its end.
C12_StartMarkerFirst ==
    /\ \A k \in 1..Len(files) : ~HasMarker(stream[files[k].at].data, SOI)
    /\ (/\ Len(stream) >= 1
        /\ LastRead.idle
        /\ HasMarker(LastRead.data, SOI)
        /\ HasMarker(LastRead.data, EOI))
          => /\ current_jpeg.some
             /\ \E p \in 0..(Len(LastRead.data) - 2) :
                    /\ FirstMarkerAt(LastRead.data, SOI, p)
                    /\ current_jpeg.v = SubSeq(LastRead.data, p + 1, Len(LastRead.data))
             /\ \A k \in 1..Len(files) : files[k].at # Len(stream)

\* C12 witness: a block with the end marker before the start marker was
\* visited while Idle, after a file had been written
C12_Witness ==
    /\ Len(stream) >= 1
    /\ LastRead.idle
    /\ \E p, q \in 0..(Len(LastRead.data) - 2) :
           /\ q < p
           /\ MarkerAt(LastRead.data, EOI, q)
           /\ MarkerAt(LastRead.data, SOI, p)
    /\ current_jpeg.some
    /\ Len(files) >= 1

\* every block read from the image was yielded as free
C13_OnlyFreeBlocksRead ==
    \A k \in 1..Len(stream) :
        \E j \in 1..Len(yielded) :
            /\ yielded[j].block = stream[k].block
            /\ ~yielded[j].used

\* an iteration whose triple has is_used = true changes neither the buffer,
\* nor the start block, nor the files, and reads no block
C13_UsedBlockIsNoOp ==
    (/\ Len(yielded') = Len(yielded) + 1
     /\ yielded'[Len(yielded')].used)
        => /\ UNCHANGED <<current_jpeg, jpeg_start_block, files, stream>>
           /\ block_data' = None

\* C13: used blocks do not affect carving: when the iterator yields a triple
\* with is_used = true the carver leaves the buffer, the start block and the
\* written files unchanged and reads nothing from the image, so files are
\* assembled from free blocks only, across the used blocks between them.
C13_UsedBlocksSkipped ==
    /\ []C13_OnlyFreeBlocksRead
    /\ [][C13_UsedBlockIsNoOp]_vars

\* C13 witness: a file was written, and a used block lies between the last
\* two free blocks it was assembled from
C13_Witness ==
    \E k \in 1..Len(files) :
        \E j \in 1..Len(yielded) :
            /\ yielded[j].used
            /\ files[k].name[2] <= stream[files[k].at - 1].block
            /\ stream[files[k].at - 1].block < yielded[j].block
            /\ yielded[j].block < stream[files[k].at].block

\* C14: at every iteration boundary the start block is recorded exactly when
\* a buffer is present, and a present buffer begins with FF D8; so the start
\* block was there to be unwrapped for every file written: each file carries
\* the number of a block read before its end-marker block.
C14_StartBlockIffBuffer ==
    /\ jpeg_start_block.some <=> current_jpeg.some
    /\ current_jpeg.some =>
          /\ Len(current_jpeg.v) >= 2
          /\ current_jpeg.v[1] = 255
          /\ current_jpeg.v[2] = 216
    /\ jpeg_start_block.some =>
          \E m \in 1..Len(stream) : stream[m].block = jpeg_start_block.v
    /\ \A k \in 1..Len(files) :
          \E m \in 1..(files[k].at - 1) : stream[m].block = files[k].name[2]

\* C14 witness: after a file was written a new buffer was started and has
\* grown by a block without markers
C14_Witness ==
    /\ Len(files) >= 1
    /\ current_jpeg.some
    /\ jpeg_start_block.some
    /\ Len(stream) >= 1
    /\ ~HasMarker(LastRead.data, SOI)
    /\ jpeg_start_block.v < LastRead.block

\* the start block in the name of the k-th written file, and the block whose
\* end marker completed it
StartBlockOf(k) == files[k].name[2]
EndBlockOf(k) == stream[files[k].at].block

\* C15: within one carving pass no recovered file overwrites another: every
\* file's end-marker block comes strictly after its start block and strictly
\* before the next file's start block, the start blocks of successively
\* written files are strictly increasing, and the names of the files
\* written in one run are pairwise distinct.
C15_NoOverwrite ==
    /\ \A k \in 1..Len(files) : StartBlockOf(k) < EndBlockOf(k)
    /\ \A k \in 1..(Len(files) - 1) : EndBlockOf(k) < StartBlockOf(k + 1)
    /\ \A j, k \in 1..Len(files) : j < k => StartBlockOf(j) < StartBlockOf(k)
    /\ \A j, k \in 1..Len(files) : j # k => files[j].name # files[k].name

\* C15 witness: the pass has ended with two files written, the second one
\* completed in another group than the first
C15_Witness ==
    /\ pc = "done"
    /\ Len(files) >= 2
    /\ files[1].name[1] # files[2].name[1]

----------------------------------------------------------------------------
(* Claims about Ext2FS::new, checked under SpecLoad *)

\* where the descriptor table is read and how many slots are decoded
TableAt == DescriptorTableOffset(ext2_fs.super_block.block_size)
SlotCount == ext2_fs.super_block.block_size \div 32

\* the first 4 bytes of slot i (0-based) of the table are all zero
SlotIsZero(i) == \A j \in 0..3 : Byte(TableAt + 32 * i + j) = 0

\* the index of the first zero slot, or the number of slots if there is none
FirstZeroSlot ==
    LET zero == {i \in 0..(SlotCount - 1) : SlotIsZero(i)}
    IN  IF zero = {} THEN SlotCount ELSE Min(zero)

\* C6: the loaded descriptors are exactly the slots before the first slot
\* whose first 4 bytes are zero, in source order; the zero slot and every
\* slot after it are not loaded, even one with a non-zero bitmap block.
C6_ValidPrefixOnly ==
    ext2_fs.progress >= 2 =>
        /\ Len(ext2_fs.block_group_descriptors) = FirstZeroSlot
        /\ \A i \in 1..Len(ext2_fs.block_group_descriptors) :
              LET d == ext2_fs.block_group_descriptors[i]
                  off == TableAt + 32 * (i - 1)
              IN  /\ d.bg_block_bitmap = U32(off)
                  /\ d.bg_block_bitmap # 0
                  /\ d.bg_inode_bitmap = U32(off + 4)
                  /\ d.bg_inode_table = U32(off + 8)

\* C6 witness: the table was parsed, something was loaded, and a slot after
\* the first zero slot holds a non-zero bitmap block
C6_Witness ==
    /\ ext2_fs.progress >= 2
    /\ FirstZeroSlot >= 1
    /\ \E j \in (FirstZeroSlot + 1)..(SlotCount - 1) : ~SlotIsZero(j)

\* C7: when 1024 << log_block_size is zero or does not fit the 32-bit
\* block-size field, Ext2FS::new returns an error instead of going on to
\* read the descriptor table, the bitmaps or the inodes.
C7_ImplausibleBlockSizeIsError ==
    (U32(1024 + 24) + 10 >= 32)
        => \/ pc = "new"
           \/ pc = "io_error" /\ ext2_fs.progress = 0

\* C8: with revision level 0 the inode record size is 128 whatever the
\* superblock holds at offset 88, so the first data block of group g is
\* inodes_per_group / (block_size / 128) + bg_inode_table of g.
C8_Rev0InodeSize128 ==
    (ext2_fs.progress >= 1 /\ ext2_fs.super_block.rev_level = 0)
        => /\ (ext2_fs.progress = 3 /\ ext2_fs.super_block.block_size >= 128)
                 => pc # "panic"
           /\ ext2_fs.progress >= 4
                 => /\ Len(ext2_fs.data_blocks_offsets) = Len(ext2_fs.block_group_descriptors)
                    /\ \A g \in 1..Len(ext2_fs.data_blocks_offsets) :
                          ext2_fs.data_blocks_offsets[g] =
                              ext2_fs.super_block.inodes_per_group
                                  \div (ext2_fs.super_block.block_size \div 128)
                              + ext2_fs.block_group_descriptors[g].bg_inode_table

====
